---------------------------- MODULE Spec2Model ----------------------------
(***************************************************************************)
(* A model of the "fft" filter plugin (src/fft_filter.cpp): the FFTFilter  *)
(* object's configuration members, its per-datapoint sample buffers, and   *)
(* its two public operations, ingest and reconfigure.                      *)
(*                                                                         *)
(* Both operations run under m_configMutex for their whole body, so each   *)
(* is one atomic action in the specifications of the filter in its         *)
(* pipeline.  SpecThreads takes the calls apart instead: threads call in,  *)
(* wait for the mutex, and run the bodies one statement at a time.         *)
(*                                                                         *)
(* A C++ string is a sequence of one-character strings, so that strtol,    *)
(* snprintf and string concatenation are modelled by what they do.         *)
(* Sample values are small integers.  The spectrum itself (the             *)
(* FFT routine is not part of fft_filter.cpp) is kept symbolic: a band     *)
(* value records which bins were summed and what the sum was divided by.   *)
(***************************************************************************)
EXTENDS Integers, Sequences, FiniteSets, TLC

VARIABLES
    m_asset,      \* name of the asset the filter buffers
    m_bands,      \* number of bands configured
    m_samples,    \* window length configured
    m_lowPass,    \* percentage of bins cut at the low end
    m_highPass,   \* percentage of bins cut at the high end
    m_buffer,     \* datapoint name -> buffered samples (a std::map)
    crashed,      \* the process was killed by an integer division trap
    call,         \* the call that returned last, its arguments and output
    m_configMutex,  \* the thread that holds the mutex, or "free"
    frame,        \* thread -> where its call stands, and the call's locals
    history       \* per datapoint name: the samples received, and transformed

vars == <<m_asset, m_bands, m_samples, m_lowPass, m_highPass, m_buffer,
          crashed, call, m_configMutex, frame, history>>

(***************************************************************************)
(* Bounds of the model.                                                    *)
(***************************************************************************)
MaxBatch == 2       \* readings in one ingest call
MaxBuffered == 3    \* samples buffered over all datapoints after a call
MaxBufferedConfig == 1  \* the same, where only the configuration is checked
MaxBands == 3       \* most bands of the band computation's own check
MaxWindow == 8      \* longest window of the band computation's own check
MaxBufferedThreads == 4  \* samples buffered before a pass, in calls run step by step
MaxBatchSteps == 3  \* readings in one ingest call that is run step by step
MaxKept == 7        \* samples of one buffer, where a buffer may outgrow the window
MaxReceived == 6    \* samples received over all datapoints, where they are recorded

(***************************************************************************)
(* Readings and datapoints.                                                *)
(***************************************************************************)
T_FLOAT == "T_FLOAT"
T_INTEGER == "T_INTEGER"
T_STRING == "T_STRING"

Datapoint(n, t, v) == [name |-> n, type |-> t, val |-> v]

Reading(a, dps) == [asset |-> a, dps |-> dps]

X == <<"x">>
Y == <<"y">>
Z == <<"z">>
Vib == <<"v", "i", "b">>
Pump == <<"p", "u", "m", "p">>

\* Datapoint names in the order std::map<string, ...> iterates them.
NameOrder == <<X, Y, Z>>

ChannelNames == { NameOrder[k] : k \in 1..Len(NameOrder) }

Assets == {Vib, Pump}

\* Readings of two assets: with one or three fields, of float, integer and
\* string type.
Readings ==
    { Reading(Vib, <<Datapoint(X, T_FLOAT, 1)>>),
      Reading(Vib, <<Datapoint(Z, T_STRING, 0), Datapoint(X, T_INTEGER, 2),
                     Datapoint(Y, T_FLOAT, 1)>>),
      Reading(Pump, <<Datapoint(X, T_FLOAT, 1)>>) }

RECURSIVE SeqsUpTo(_, _)
SeqsUpTo(S, n) ==
    IF n = 0 THEN { <<>> }
    ELSE LET shorter == SeqsUpTo(S, n - 1)
         IN  shorter \cup { Append(s, e) : s \in { t \in shorter : Len(t) = n - 1 }, e \in S }

Batches == SeqsUpTo(Readings, MaxBatch)

(***************************************************************************)
(* Configuration categories.  A category maps the keys it holds to string  *)
(* values; the numeric ones are parsed with strtol(value, NULL, 10).       *)
(***************************************************************************)
Keys == {"asset", "bands", "samples", "lowPass", "highPass"}

ValuesOf(key) ==
    CASE key = "asset"    -> Assets
      [] key = "bands"    -> { <<"2">>, <<"a", "b">> }
      [] key = "samples"  -> { <<"4">>, <<"3">>, <<"2">>, <<"a", "b">> }
      [] key = "lowPass"  -> { <<"0">>, <<"5", "0">> }
      [] key = "highPass" -> { <<"0">>, <<"5", "0", "%">> }

AllValues == UNION { ValuesOf(k) : k \in Keys }

ConfigsOver(D) == { c \in [D -> AllValues] : \A k \in D : c[k] \in ValuesOf(k) }

Configs == UNION { ConfigsOver(D) : D \in SUBSET Keys }

FullConfigs == ConfigsOver(Keys)

itemExists(config, key) == key \in DOMAIN config

getValue(config, key) == config[key]

DigitChars == <<"0", "1", "2", "3", "4", "5", "6", "7", "8", "9">>

IsDigit(c) == \E d \in 1..10 : DigitChars[d] = c

DigitValue(c) == (CHOOSE d \in 1..10 : DigitChars[d] = c) - 1

IsSpace(c) == c \in {" ", "\t", "\n"}

RECURSIVE SkipSpace(_, _)
SkipSpace(s, i) ==
    IF i <= Len(s) /\ IsSpace(s[i]) THEN SkipSpace(s, i + 1) ELSE i

RECURSIVE Accumulate(_, _, _)
Accumulate(s, i, acc) ==
    IF i <= Len(s) /\ IsDigit(s[i])
    THEN Accumulate(s, i + 1, acc * 10 + DigitValue(s[i]))
    ELSE acc

\* strtol(s, NULL, 10): leading white space, an optional sign, then the
\* longest run of decimal digits; 0 when there is no digit to convert.
strtol(s) ==
    LET i == SkipSpace(s, 1)
        signed == i <= Len(s) /\ s[i] \in {"-", "+"}
        j == IF signed THEN i + 1 ELSE i
        magnitude == Accumulate(s, j, 0)
    IN  IF signed /\ s[i] = "-" THEN 0 - magnitude ELSE magnitude

\* One member as handleConfig leaves it: parsed from the category when the
\* key exists, the value it had otherwise.
ConfiguredAsset(config, prior) ==
    IF itemExists(config, "asset") THEN getValue(config, "asset") ELSE prior

\* A faulty variant: a key the category lacks resets the member to 0.
ConfiguredLongOrZero(config, key, prior) ==
    IF itemExists(config, key) THEN strtol(getValue(config, key)) ELSE 0

ConfiguredLong(config, key, prior) ==
    IF itemExists(config, key) THEN strtol(getValue(config, key)) ELSE prior

handleConfig(config) ==
    /\ m_asset' = ConfiguredAsset(config, m_asset)
    /\ m_bands' = ConfiguredLong(config, "bands", m_bands)
    /\ m_samples' = ConfiguredLong(config, "samples", m_samples)
    /\ m_lowPass' = ConfiguredLong(config, "lowPass", m_lowPass)
    /\ m_highPass' = ConfiguredLong(config, "highPass", m_highPass)

NoConfig == [k \in {} |-> <<>>]

CallRecord(op, readings, newConfig, out) ==
    [op |-> op, readings |-> readings, newConfig |-> newConfig, out |-> out]

(***************************************************************************)
(* The threads that call into the filter.  A thread's frame holds where    *)
(* its call stands and the call's arguments and locals; at[k] is the index *)
(* of the reading the loop of ingest was at when out[k] was pushed.        *)
(***************************************************************************)
Threads == {"t1", "t2"}

NotCalled ==
    [pc |-> "idle", readings |-> <<>>, i |-> 0, out |-> <<>>, at |-> <<>>,
     newConfig |-> NoConfig]

NothingRecorded ==
    [received |-> [c \in ChannelNames |-> <<>>],
     transformed |-> [c \in ChannelNames |-> <<>>]]

\* No call is under way, the mutex is free and nothing has been received.
NoCalls ==
    /\ m_configMutex = "free"
    /\ frame = [t \in Threads |-> NotCalled]
    /\ history = NothingRecorded

(***************************************************************************)
(* Construction: the constructor hands the filter's category to            *)
(* handleConfig.  The category of a running filter holds every key (the    *)
(* plugin's defaults are merged into it), so every member is set.          *)
(***************************************************************************)
Constructed(filterConfig) ==
    /\ m_asset = getValue(filterConfig, "asset")
    /\ m_bands = strtol(getValue(filterConfig, "bands"))
    /\ m_samples = strtol(getValue(filterConfig, "samples"))
    /\ m_lowPass = strtol(getValue(filterConfig, "lowPass"))
    /\ m_highPass = strtol(getValue(filterConfig, "highPass"))
    /\ m_buffer = [n \in {} |-> <<>>]
    /\ crashed = FALSE
    /\ call = CallRecord("construct", <<>>, filterConfig, <<>>)
    /\ NoCalls

\* The categories of a pipeline that leaves both cut-offs at 0.
PipelineConfigs ==
    { c \in FullConfigs : strtol(c["lowPass"]) = 0 /\ strtol(c["highPass"]) = 0 }

Init == \E filterConfig \in PipelineConfigs : Constructed(filterConfig)

InitConfig == \E filterConfig \in FullConfigs : Constructed(filterConfig)

\* A faulty variant: the reconfiguration also drops what is buffered.
reconfigureDroppingBuffers(newConfig) ==
    /\ ~crashed
    /\ handleConfig(newConfig)
    /\ call' = CallRecord("reconfigure", <<>>, newConfig, <<>>)
    /\ m_buffer' = [n \in DOMAIN m_buffer |-> <<>>]
    /\ UNCHANGED <<crashed, m_configMutex, frame>>

reconfigure(newConfig) ==
    /\ ~crashed
    /\ handleConfig(newConfig)
    /\ call' = CallRecord("reconfigure", <<>>, newConfig, <<>>)
    /\ UNCHANGED <<m_buffer, crashed, m_configMutex, frame>>

(***************************************************************************)
(* addFFTAsset: every datapoint of the reading whose value is a float or   *)
(* an integer is appended to the buffer of its name, which is created on   *)
(* the first sample.                                                       *)
(***************************************************************************)
toDouble(dp) == dp.val

toInt(dp) == dp.val

\* A faulty variant: the new sample goes to the front of the vector.
push_front(buffer, name, value) ==
    IF name \in DOMAIN buffer
    THEN [buffer EXCEPT ![name] = <<value>> \o @]
    ELSE [n \in DOMAIN buffer \cup {name} |->
              IF n = name THEN <<value>> ELSE buffer[n]]

push_back(buffer, name, value) ==
    IF name \in DOMAIN buffer
    THEN [buffer EXCEPT ![name] = Append(@, value)]
    ELSE [n \in DOMAIN buffer \cup {name} |->
              IF n = name THEN <<value>> ELSE buffer[n]]

\* A faulty variant: a value of any type is buffered.
IsAnyType(dp) == TRUE

\* A faulty variant: integer values are not buffered.
IsFloatOnly(dp) == dp.type = T_FLOAT

IsNumeric(dp) == dp.type \in {T_FLOAT, T_INTEGER}

RECURSIVE addFFTAssetLoop(_, _, _)
addFFTAssetLoop(buffer, datapoints, i) ==
    IF i > Len(datapoints) THEN buffer
    ELSE LET dp == datapoints[i]
         IN  IF IsNumeric(dp)
             THEN LET value == IF dp.type = T_FLOAT THEN toDouble(dp) ELSE toInt(dp)
                  IN  addFFTAssetLoop(push_back(buffer, dp.name, value), datapoints, i + 1)
             ELSE addFFTAssetLoop(buffer, datapoints, i + 1)

addFFTAsset(buffer, reading) == addFFTAssetLoop(buffer, reading.dps, 1)

(***************************************************************************)
(* runFFT: the band computation over the first half of the spectrum of     *)
(* one window.  A band's value is kept symbolic: the bins whose magnitudes *)
(* were summed and the divisor of the sum.                                 *)
(***************************************************************************)
Abs(a) == IF a < 0 THEN 0 - a ELSE a

\* C++ integer division, which truncates towards zero (b # 0).
CDiv(a, b) ==
    IF (a >= 0) = (b > 0) THEN Abs(a) \div Abs(b) ELSE 0 - (Abs(a) \div Abs(b))

\* What an integer division by zero does: the process is killed by the
\* trap (x86), or the division yields 0 (AArch64).
DivZeroOutcomes == {"trap", "zero"}

\* A faulty variant: the band number is not padded to two digits.
BandLabelUnpadded(band) ==
    <<"B", "a", "n", "d", " ">> \o
        (IF band < 10 THEN <<DigitChars[band + 1]>>
         ELSE <<DigitChars[(band \div 10) + 1], DigitChars[(band % 10) + 1]>>)

\* snprintf(buf, sizeof(buf), "Band %02d", band)
BandLabel(band) ==
    <<"B", "a", "n", "d", " ">> \o
        (IF band < 10 THEN <<"0", DigitChars[band + 1]>>
         ELSE <<DigitChars[(band \div 10) + 1], DigitChars[(band % 10) + 1]>>)

FFTSuffix == <<" ", "F", "F", "T">>

BandValue(bins, aveSamples) == [bins |-> bins, div |-> aveSamples]

\* A faulty variant: the whole spectrum is banded, not its first half.
n_outputsWhole(values) == Len(values)

n_outputsOf(values) == CDiv(Len(values), 2)

\* A faulty variant: the low cut-off is not applied.
firstUncut(values) == 0

firstOf(values) == CDiv(m_lowPass * n_outputsOf(values), 100)

lastOf(values) == n_outputsOf(values) - CDiv(m_highPass * n_outputsOf(values), 100)

BandReady(cnt, aveSamples) == cnt = aveSamples

\* The loop over the bins first .. last - 1; sum is the bins added since the
\* last band was pushed.
RECURSIVE bandLoop(_, _, _, _, _, _)
bandLoop(i, last, aveSamples, sum, band, datapoints) ==
    IF i >= last THEN datapoints
    ELSE LET sum1 == Append(sum, i)
         IN  IF BandReady(Len(sum1), aveSamples)
             THEN bandLoop(i + 1, last, aveSamples, <<>>, band + 1,
                           Append(datapoints,
                                  Datapoint(BandLabel(band), T_FLOAT,
                                            BandValue(sum1, aveSamples))))
             ELSE bandLoop(i + 1, last, aveSamples, sum1, band, datapoints)

InputEntry(reading) ==
    [kind |-> "input", reading |-> reading, chan |-> <<>>, window |-> <<>>]

FFTEntry(reading, dpName, values) ==
    [kind |-> "fft", reading |-> reading, chan |-> dpName, window |-> values]

\* st is the call's running state: the buffers, the output vector and
\* whether the process has been killed.
runFFT(st, dpName, values, divz) ==
    LET first == firstOf(values)
        last == lastOf(values)
    IN  IF m_bands = 0 /\ divz = "trap"
        THEN [st EXCEPT !.crashed = TRUE]
        ELSE LET aveSamples == IF m_bands = 0 THEN 0 ELSE CDiv(last - first, m_bands)
                 datapoints == bandLoop(first, last, aveSamples, <<>>, 0, <<>>)
             IN  [st EXCEPT !.out = Append(@, FFTEntry(Reading(m_asset \o FFTSuffix, datapoints),
                                                      dpName, values))]

(***************************************************************************)
(* processFFT: every buffer, in the map's order, that holds exactly        *)
(* m_samples samples is transformed and then cleared.                      *)
(***************************************************************************)
\* A faulty variant: a buffer longer than the window is transformed too.
WindowReached(values) == Len(values) >= m_samples

WindowFull(values) == Len(values) = m_samples

\* A faulty variant: every buffer is cleared after a transform.
clearAll(st, name) == [st EXCEPT !.buf = [n \in DOMAIN st.buf |-> <<>>]]

\* A faulty variant: the buffer is not cleared after the transform.
clearSkipped(st, name) == st

clear(st, name) == [st EXCEPT !.buf[name] = <<>>]

RECURSIVE processFFTLoop(_, _, _)
processFFTLoop(st, k, divz) ==
    IF k > Len(NameOrder) \/ st.crashed THEN st
    ELSE LET name == NameOrder[k]
         IN  IF name \in DOMAIN st.buf /\ WindowFull(st.buf[name])
             THEN LET ran == runFFT(st, name, st.buf[name], divz)
                  IN  IF ran.crashed THEN ran
                      ELSE processFFTLoop(clear(ran, name), k + 1, divz)
             ELSE processFFTLoop(st, k + 1, divz)

processFFT(st, divz) == processFFTLoop(st, 1, divz)

(***************************************************************************)
(* ingest: a reading of the configured asset is buffered and the buffers   *)
(* are then processed; any other reading is passed on.  The caller's       *)
(* vector of readings is cleared at the end.                               *)
(***************************************************************************)
\* A faulty variant: the comparison of the asset names is inverted.
MatchesInverted(reading) == reading.asset # m_asset

Matches(reading) == reading.asset = m_asset

RECURSIVE ingestLoop(_, _, _, _)
ingestLoop(st, readings, i, divz) ==
    IF i > Len(readings) \/ st.crashed THEN st
    ELSE LET reading == readings[i]
         IN  IF Matches(reading)
             THEN ingestLoop(processFFT([st EXCEPT !.buf = addFFTAsset(@, reading)], divz),
                             readings, i + 1, divz)
             ELSE ingestLoop([st EXCEPT !.out = Append(@, InputEntry(reading))],
                             readings, i + 1, divz)

ingestResult(readings, divz) ==
    ingestLoop([buf |-> m_buffer, out |-> <<>>, crashed |-> FALSE], readings, 1, divz)

RECURSIVE SumLen(_, _)
SumLen(buffer, names) ==
    IF names = {} THEN 0
    ELSE LET n == CHOOSE m \in names : TRUE
         IN  Len(buffer[n]) + SumLen(buffer, names \ {n})

Buffered(buffer) == SumLen(buffer, DOMAIN buffer)

\* The whole call as one step: the mutex is taken on entry and released on
\* return, and no other thread is inside.  A call that the trap kills never
\* returns: the process is gone, and nothing else of the state is observed
\* again.
ingest(readings, divz) ==
    \E st \in {ingestResult(readings, divz)} :
        /\ ~crashed
        /\ crashed' = st.crashed
        /\ IF st.crashed
           THEN UNCHANGED <<m_buffer, call>>
           ELSE /\ Buffered(st.buf) <= MaxBuffered
                /\ m_buffer' = st.buf
                /\ call' = CallRecord("ingest", readings, NoConfig, st.out)
        /\ UNCHANGED <<m_asset, m_bands, m_samples, m_lowPass, m_highPass>>
        /\ UNCHANGED <<m_configMutex, frame>>

\* The newest samples of each buffer, at most MaxKept of them.  A buffer
\* longer than every window length that is configured can never again hold
\* exactly m_samples samples: it only grows, and how long it is and what it
\* holds no longer matter.
Newest(values) ==
    IF Len(values) <= MaxKept THEN values
    ELSE SubSeq(values, Len(values) - MaxKept + 1, Len(values))

Kept(buffer) == [n \in DOMAIN buffer |-> Newest(buffer[n])]

\* The whole call as one step, as ingest above, with buffers that may
\* outgrow the window.
ingestKept(readings, divz) ==
    \E st \in {ingestResult(readings, divz)} :
        /\ ~crashed
        /\ crashed' = st.crashed
        /\ IF st.crashed
           THEN UNCHANGED <<m_buffer, call>>
           ELSE /\ m_buffer' = Kept(st.buf)
                /\ call' = CallRecord("ingest", readings, NoConfig, st.out)
        /\ UNCHANGED <<m_asset, m_bands, m_samples, m_lowPass, m_highPass>>
        /\ UNCHANGED <<m_configMutex, frame>>

\* The division is by zero only when m_bands is 0; otherwise nothing is
\* left to the platform.
Outcomes == IF m_bands = 0 THEN DivZeroOutcomes ELSE {"defined"}

\* The filter in its pipeline: batches of readings arrive, and a
\* reconfiguration delivers the whole category.
Next ==
    \/ \E readings \in Batches, divz \in Outcomes :
           ingest(readings, divz) /\ UNCHANGED history
    \/ \E newConfig \in PipelineConfigs :
           reconfigure(newConfig) /\ UNCHANGED history

Spec == Init /\ [][Next]_vars

\* The configuration handling on its own: a category may lack any of its
\* keys, and single readings keep the buffers short.
ConfigBatches ==
    SeqsUpTo({ Reading(Vib, <<Datapoint(X, T_FLOAT, 1)>>),
               Reading(Pump, <<Datapoint(X, T_FLOAT, 1)>>) }, 1)

NextConfig ==
    \/ \E readings \in ConfigBatches, divz \in Outcomes :
           /\ ingest(readings, divz)
           /\ Buffered(m_buffer') <= MaxBufferedConfig
           /\ UNCHANGED history
    \/ \E newConfig \in Configs :
           reconfigure(newConfig) /\ UNCHANGED history

SpecConfig == InitConfig /\ [][NextConfig]_vars

\* The band computation on its own: the filter holds a window (of a length
\* the transform supports) that lacks one sample, under any small
\* configuration, and single readings arrive.
BandCounts == 0..MaxBands

Percentages == {0, 25, 50, 100}

RECURSIVE IsPowerOfTwo(_)
IsPowerOfTwo(n) == n = 1 \/ (n > 1 /\ n % 2 = 0 /\ IsPowerOfTwo(n \div 2))

WindowLengths == { n \in 1..MaxWindow : IsPowerOfTwo(n) }

InitBand ==
    \E n \in WindowLengths, bands \in BandCounts, lowPass \in Percentages,
       highPass \in Percentages :
        /\ m_asset \in Assets
        /\ m_bands = bands
        /\ m_samples = n
        /\ m_lowPass = lowPass
        /\ m_highPass = highPass
        /\ m_buffer = [name \in {X} |-> [i \in 1..(n - 1) |-> 1]]
        /\ crashed = FALSE
        /\ call = CallRecord("construct", <<>>, NoConfig, <<>>)
        /\ NoCalls

NextBand ==
    \E readings \in ConfigBatches, divz \in Outcomes :
        ingest(readings, divz) /\ UNCHANGED history

SpecBand == InitBand /\ [][NextBand]_vars

\* The reconfiguration scenario: a filter configured for windows of 8
\* samples that has buffered 3 samples of x, in its pipeline.
EightSampleConfigs == { [c EXCEPT !["samples"] = <<"8">>] : c \in PipelineConfigs }

InitResize ==
    \E filterConfig \in EightSampleConfigs, buffered \in [1..3 -> {1, 2}] :
        /\ m_asset = getValue(filterConfig, "asset")
        /\ m_bands = strtol(getValue(filterConfig, "bands"))
        /\ m_samples = strtol(getValue(filterConfig, "samples"))
        /\ m_lowPass = strtol(getValue(filterConfig, "lowPass"))
        /\ m_highPass = strtol(getValue(filterConfig, "highPass"))
        /\ m_buffer = [name \in {X} |-> buffered]
        /\ crashed = FALSE
        /\ call = CallRecord("construct", <<>>, filterConfig, <<>>)
        /\ NoCalls

SpecResize == InitResize /\ [][Next]_vars

(***************************************************************************)
(* The calls taken apart.  A thread calls ingest or reconfigure, waits at  *)
(* the lock_guard until m_configMutex is free, runs the body one statement *)
(* at a time and releases the mutex when it returns.                       *)
(***************************************************************************)
Members == <<m_asset, m_bands, m_samples, m_lowPass, m_highPass>>

ingestCalled(t, readings) ==
    /\ ~crashed
    /\ frame[t].pc = "idle"
    /\ frame' = [frame EXCEPT ![t] = [NotCalled EXCEPT !.pc = "ingest",
                                                       !.readings = readings,
                                                       !.i = 1]]
    /\ UNCHANGED <<Members, m_buffer, crashed, call, m_configMutex, history>>

reconfigureCalled(t, newConfig) ==
    /\ ~crashed
    /\ frame[t].pc = "idle"
    /\ frame' = [frame EXCEPT ![t] = [NotCalled EXCEPT !.pc = "reconfigure",
                                                       !.newConfig = newConfig]]
    /\ UNCHANGED <<Members, m_buffer, crashed, call, m_configMutex, history>>

\* A faulty variant: the mutex is taken whoever holds it.
UnlockedOrHeld(mutex) == TRUE

Unlocked(mutex) == mutex = "free"

\* lock_guard<mutex> guard(m_configMutex): the thread goes on once it has
\* the mutex.
lock_guard(t) ==
    /\ ~crashed
    /\ frame[t].pc \in {"ingest", "reconfigure"}
    /\ Unlocked(m_configMutex)
    /\ m_configMutex' = t
    /\ frame' = [frame EXCEPT ![t].pc = IF @ = "ingest" THEN "for" ELSE "handleConfig"]
    /\ UNCHANGED <<Members, m_buffer, crashed, call, history>>

\* The loop of ingest is at a reading of the batch.
AtReading(t) == frame[t].pc = "for" /\ frame[t].i <= Len(frame[t].readings)

out_push_back(out, entry) == Append(out, entry)

\* addFFTAsset(*reading), for a reading of the configured asset.
ingestBuffers(t) ==
    /\ ~crashed
    /\ AtReading(t)
    /\ Matches(frame[t].readings[frame[t].i])
    /\ m_buffer' = addFFTAsset(m_buffer, frame[t].readings[frame[t].i])
    /\ Buffered(m_buffer') <= MaxBufferedThreads
    /\ frame' = [frame EXCEPT ![t].pc = "processFFT"]
    /\ UNCHANGED <<Members, crashed, call, m_configMutex, history>>

\* processFFT(out), and on to the next reading.
ingestProcesses(t, divz) ==
    /\ ~crashed
    /\ frame[t].pc = "processFFT"
    /\ \E st \in {processFFT([buf |-> m_buffer, out |-> frame[t].out,
                               crashed |-> FALSE], divz)} :
          /\ crashed' = st.crashed
          /\ IF st.crashed
             THEN UNCHANGED <<m_buffer, frame>>
             ELSE /\ m_buffer' = st.buf
                  /\ frame' = [frame EXCEPT
                         ![t].out = st.out,
                         ![t].at = @ \o [k \in 1..(Len(st.out) - Len(frame[t].out))
                                            |-> frame[t].i],
                         ![t].i = @ + 1,
                         ![t].pc = "for"]
    /\ UNCHANGED <<Members, call, m_configMutex, history>>

\* out.push_back(*reading), for a reading of another asset, and on to the
\* next reading.
ingestPassesOn(t) ==
    /\ ~crashed
    /\ AtReading(t)
    /\ ~Matches(frame[t].readings[frame[t].i])
    /\ frame' = [frame EXCEPT
           ![t].out = out_push_back(@, InputEntry(frame[t].readings[frame[t].i])),
           ![t].at = Append(@, frame[t].i),
           ![t].i = @ + 1]
    /\ UNCHANGED <<Members, m_buffer, crashed, call, m_configMutex, history>>

\* readings->clear() and the return, which releases the mutex.
ingestReturns(t) ==
    /\ ~crashed
    /\ frame[t].pc = "for"
    /\ frame[t].i > Len(frame[t].readings)
    /\ call' = CallRecord("ingest", frame[t].readings, NoConfig, frame[t].out)
    /\ m_configMutex' = "free"
    /\ frame' = [frame EXCEPT ![t] = NotCalled]
    /\ UNCHANGED <<Members, m_buffer, crashed, history>>

\* setConfig and handleConfig, and the return, which releases the mutex.
reconfigureReturns(t) ==
    /\ ~crashed
    /\ frame[t].pc = "handleConfig"
    /\ handleConfig(frame[t].newConfig)
    /\ call' = CallRecord("reconfigure", <<>>, frame[t].newConfig, <<>>)
    /\ m_configMutex' = "free"
    /\ frame' = [frame EXCEPT ![t] = NotCalled]
    /\ UNCHANGED <<m_buffer, crashed, history>>

Steps(threads, batches, configs) ==
    \/ \E t \in threads, readings \in batches : ingestCalled(t, readings)
    \/ \E t \in threads, newConfig \in configs : reconfigureCalled(t, newConfig)
    \/ \E t \in threads : lock_guard(t)
    \/ \E t \in threads : ingestBuffers(t)
    \/ \E t \in threads, divz \in Outcomes : ingestProcesses(t, divz)
    \/ \E t \in threads : ingestPassesOn(t)
    \/ \E t \in threads : ingestReturns(t)
    \/ \E t \in threads : reconfigureReturns(t)

\* Two threads: short batches, and reconfigurations of the asset or of the
\* window length, on a filter that transforms windows of 2 samples.
ThreadReadings ==
    { Reading(Vib, <<Datapoint(X, T_FLOAT, 1)>>),
      Reading(Pump, <<Datapoint(X, T_INTEGER, 2)>>) }

ThreadBatches == SeqsUpTo(ThreadReadings, MaxBatch)

ThreadConfigs ==
    { c \in ConfigsOver({"asset"}) \cup ConfigsOver({"samples"}) :
          "samples" \in DOMAIN c => strtol(c["samples"]) \in {2, 4} }

ThreadStartConfigs ==
    { c \in PipelineConfigs : strtol(c["bands"]) = 2 /\ strtol(c["samples"]) = 2 }

InitThreads == \E filterConfig \in ThreadStartConfigs : Constructed(filterConfig)

NextThreads == Steps(Threads, ThreadBatches, ThreadConfigs)

SpecThreads == InitThreads /\ [][NextThreads]_vars

\* One thread, whose calls are followed statement by statement: batches of
\* up to MaxBatchSteps readings, among them readings with a field of a type
\* that is not buffered and readings that fill two buffers at once.
StepReadings ==
    { Reading(Vib, <<Datapoint(X, T_STRING, 0), Datapoint(Y, T_FLOAT, 1)>>),
      Reading(Vib, <<Datapoint(X, T_INTEGER, 2), Datapoint(Y, T_FLOAT, 1)>>),
      Reading(Pump, <<Datapoint(X, T_FLOAT, 1)>>) }

StepBatches == SeqsUpTo(StepReadings, MaxBatchSteps)

StepConfigs == { c \in ThreadConfigs : DOMAIN c = {"samples"} }

NextSteps == Steps({"t1"}, StepBatches, StepConfigs)

SpecSteps == InitThreads /\ [][NextSteps]_vars

(***************************************************************************)
(* What the properties below read off a step or a state.                   *)
(***************************************************************************)
\* The step is an ingest call that returned; call' holds its batch and output.
IngestReturned == ~crashed' /\ call'.op = "ingest"

\* The step is a reconfigure call that returned.
ReconfigureReturned == ~crashed' /\ call'.op = "reconfigure"

\* The state follows an ingest call that returned.
AfterIngest == ~crashed /\ call.op = "ingest"

IsFFT(e) == e.kind = "fft"

IsInput(e) == e.kind = "input"

FFTEntries(out) == SelectSeq(out, IsFFT)

FFTEntriesOf(out, c) == SelectSeq(out, LAMBDA e : IsFFT(e) /\ e.chan = c)

InputEntries(out) == SelectSeq(out, IsInput)

BufferOf(buffer, c) == IF c \in DOMAIN buffer THEN buffer[c] ELSE <<>>

\* The values the numeric fields named c of one reading carry, in order.
RECURSIVE FieldValues(_, _, _)
FieldValues(dps, c, i) ==
    IF i > Len(dps) THEN <<>>
    ELSE (IF dps[i].name = c /\ dps[i].type \in {T_FLOAT, T_INTEGER}
          THEN <<dps[i].val>> ELSE <<>>) \o FieldValues(dps, c, i + 1)

(***************************************************************************)
(* C1.  Over any sequence of ingest and reconfigure calls, and for every   *)
(* channel of the monitored asset, a derived record is emitted for the     *)
(* channel exactly when, at the pass that follows the buffering of a       *)
(* matching reading, the number of numeric values appended to the channel  *)
(* since its last emission (or its creation) equals m_samples.             *)
(* TriggerReplay counts, per channel, what that rule yields over a batch;  *)
(* the call's output and the buffers it leaves must agree with it.         *)
(***************************************************************************)
RECURSIVE TriggerReplay(_, _, _, _)
TriggerReplay(c, readings, i, acc) ==
    IF i > Len(readings) THEN acc
    ELSE IF readings[i].asset # m_asset
         THEN TriggerReplay(c, readings, i + 1, acc)
         ELSE LET added == Len(FieldValues(readings[i].dps, c, 1))
                  exists == acc.exists \/ added > 0
                  count == acc.count + added
              IN  IF exists /\ count = m_samples
                  THEN TriggerReplay(c, readings, i + 1,
                           [exists |-> TRUE, count |-> 0, emitted |-> acc.emitted + 1])
                  ELSE TriggerReplay(c, readings, i + 1,
                           [exists |-> exists, count |-> count, emitted |-> acc.emitted])

BufferWithinWindow ==
    \A c \in DOMAIN m_buffer : Len(m_buffer[c]) <= m_samples

(***************************************************************************)
(* C3.  Whenever aveSamples = floor((last - first) / m_bands) >= 1, with   *)
(* first = floor(m_lowPass * (N/2) / 100) and                              *)
(* last = N/2 - floor(m_highPass * (N/2) / 100), the record derived from a *)
(* window of N samples holds exactly m_bands band values, and no bin past  *)
(* the last of the m_bands groups of aveSamples bins is in any band.       *)
(***************************************************************************)
ClaimedFirst(n) == (m_lowPass * (n \div 2)) \div 100

ClaimedLast(n) == (n \div 2) - ((m_highPass * (n \div 2)) \div 100)

ClaimedAve(n) == (ClaimedLast(n) - ClaimedFirst(n)) \div m_bands

ExactlyBandCountBands ==
    AfterIngest =>
        \A k \in 1..Len(FFTEntries(call.out)) :
            LET e == FFTEntries(call.out)[k]
                n == Len(e.window)
                dps == e.reading.dps
            IN  (m_bands >= 1 /\ ClaimedAve(n) >= 1) =>
                    /\ Len(dps) = m_bands
                    /\ \A j \in 1..Len(dps) :
                          \A b \in 1..Len(dps[j].val.bins) :
                              dps[j].val.bins[b] < ClaimedFirst(n) + m_bands * ClaimedAve(n)

(***************************************************************************)
(* C4.  For every ingest call, the readings of the batch whose asset name  *)
(* is not the monitored one all appear in the output, unchanged, once each *)
(* and in the order they have in the batch.                                *)
(***************************************************************************)
RECURSIVE ReadingsOf(_, _)
ReadingsOf(entries, i) ==
    IF i > Len(entries) THEN <<>>
    ELSE <<entries[i].reading>> \o ReadingsOf(entries, i + 1)

OtherAsset(reading) == reading.asset # m_asset

PassThrough ==
    AfterIngest =>
        ReadingsOf(InputEntries(call.out), 1) = SelectSeq(call.readings, OtherAsset)

\* Two different readings of another asset went through one call.
PassThroughWitness ==
    /\ AfterIngest
    /\ Len(InputEntries(call.out)) = 2
    /\ InputEntries(call.out)[1] # InputEntries(call.out)[2]

(***************************************************************************)
(* C5.  For every ingest call, no reading of the batch whose asset name    *)
(* equals the monitored one appears in the output; each such reading       *)
(* appends one sample per numeric field to the buffer of the field's name: *)
(* what the call transformed for a channel, followed by what it leaves     *)
(* buffered, is what was buffered before followed by those fields' values. *)
(***************************************************************************)
RECURSIVE Appended(_, _, _)
Appended(readings, c, i) ==
    IF i > Len(readings) THEN <<>>
    ELSE (IF readings[i].asset = m_asset
          THEN FieldValues(readings[i].dps, c, 1) ELSE <<>>)
         \o Appended(readings, c, i + 1)

RECURSIVE Windows(_, _)
Windows(entries, i) ==
    IF i > Len(entries) THEN <<>>
    ELSE entries[i].window \o Windows(entries, i + 1)

MatchingConsumed ==
    [][IngestReturned =>
        /\ \A k \in 1..Len(call'.out) :
              IsInput(call'.out[k]) => call'.out[k].reading.asset # m_asset
        /\ \A c \in ChannelNames :
              /\ Windows(FFTEntriesOf(call'.out, c), 1) \o BufferOf(m_buffer', c)
                    = BufferOf(m_buffer, c) \o Appended(call'.readings, c, 1)
              /\ (c \in DOMAIN m_buffer') =
                    (c \in DOMAIN m_buffer \/ Appended(call'.readings, c, 1) # <<>>)]_vars

\* A matching reading with a string field and an integer field was buffered.
MatchingConsumedWitness ==
    /\ AfterIngest
    /\ \E i \in 1..Len(call.readings) :
          /\ call.readings[i].asset = m_asset
          /\ \E j, k \in 1..Len(call.readings[i].dps) :
                /\ call.readings[i].dps[j].type = T_STRING
                /\ call.readings[i].dps[k].type = T_INTEGER
    /\ \E c \in DOMAIN m_buffer : m_buffer[c] # <<>>

(***************************************************************************)
(* C6.  When an ingest call returns, whatever its batch held, every full   *)
(* window has been transformed and drained: no channel buffer that holds   *)
(* samples has length m_samples.                                           *)
(***************************************************************************)
NoFullWindowLeft ==
    \A c \in DOMAIN m_buffer : Len(m_buffer[c]) = m_samples => m_buffer[c] = <<>>

HeldMatching == \E i \in 1..Len(call.readings) : call.readings[i].asset = m_asset

NoDegenerateTransform ==
    /\ ~crashed
    /\ AfterIngest =>
          \A k \in 1..Len(FFTEntries(call.out)) :
              LET e == FFTEntries(call.out)[k]
              IN  /\ m_bands # 0
                  /\ ClaimedAve(Len(e.window)) >= 1
                  /\ Len(e.reading.dps) >= 1

(***************************************************************************)
(* C8.  A reconfiguration that supplies a value that is not a number for   *)
(* bands, samples, lowPass or highPass leaves that member at its prior     *)
(* value, and no call is killed afterwards.                                *)
(***************************************************************************)
NumericKeys == {"bands", "samples", "lowPass", "highPass"}

Member(key) ==
    CASE key = "bands"    -> m_bands
      [] key = "samples"  -> m_samples
      [] key = "lowPass"  -> m_lowPass
      [] key = "highPass" -> m_highPass

IsDecimal(s) ==
    LET digitsFrom == IF Len(s) >= 1 /\ s[1] \in {"-", "+"} THEN 2 ELSE 1
    IN  /\ Len(s) >= digitsFrom
        /\ \A i \in digitsFrom..Len(s) : s[i] \in {"0", "1", "2", "3", "4", "5", "6", "7", "8", "9"}

MalformedKeepsPrior ==
    [][/\ ReconfigureReturned =>
             \A key \in NumericKeys \cap DOMAIN call'.newConfig :
                 ~IsDecimal(call'.newConfig[key]) => Member(key)' = Member(key)
       /\ ~crashed']_vars

(***************************************************************************)
(* C9.  With m_samples = 8 and 3 samples buffered for a channel, a         *)
(* reconfigure that sets m_samples to 4 leaves the buffers as they are;    *)
(* with m_samples = 4 and those 3 samples buffered, the next numeric       *)
(* sample of the channel completes a window that is exactly those 3        *)
(* samples followed by the new one (4 samples, not 8), and if the call     *)
(* brought no further sample of the channel its buffer is left empty.      *)
(***************************************************************************)
ResizeKeepsBuffer ==
    (/\ ReconfigureReturned
     /\ m_samples = 8
     /\ Len(BufferOf(m_buffer, X)) = 3
     /\ m_samples' = 4)
        => m_buffer' = m_buffer

NextSampleCompletesWindow ==
    (/\ IngestReturned
     /\ m_samples = 4
     /\ Len(BufferOf(m_buffer, X)) = 3
     /\ Appended(call'.readings, X, 1) # <<>>)
        => LET new == Appended(call'.readings, X, 1)
               emitted == FFTEntriesOf(call'.out, X)
           IN  /\ Len(emitted) >= 1
               /\ emitted[1].window = m_buffer[X] \o <<new[1]>>
               /\ Len(emitted[1].window) = 4
               /\ Len(new) = 1 => m_buffer'[X] = <<>>

ResizeScenario == [][ResizeKeepsBuffer /\ NextSampleCompletesWindow]_vars

\* After the resize to 4, one more sample of x has completed a window of 4
\* and left the buffer of x empty.
ResizeScenarioWitness ==
    /\ AfterIngest
    /\ m_samples = 4
    /\ Len(Appended(call.readings, X, 1)) = 1
    /\ Len(FFTEntriesOf(call.out, X)) = 1
    /\ Len(FFTEntriesOf(call.out, X)[1].window) = 4
    /\ m_buffer[X] = <<>>

(***************************************************************************)
(* C10.  A reconfigure call leaves every member whose key the new          *)
(* category lacks at the value it had, and sets every member whose key is  *)
(* present from the category: the asset to the string given, a numeric     *)
(* member to the number its decimal string denotes.                        *)
(***************************************************************************)
RECURSIVE Denoted(_, _)
Denoted(s, n) ==
    IF n = 0 THEN 0
    ELSE 10 * Denoted(s, n - 1)
         + (CHOOSE d \in 0..9 :
                s[n] = <<"0", "1", "2", "3", "4", "5", "6", "7", "8", "9">>[d + 1])

ReconfigureFrame ==
    [][ReconfigureReturned =>
        LET config == call'.newConfig
        IN  /\ "asset" \notin DOMAIN config => m_asset' = m_asset
            /\ "asset" \in DOMAIN config => m_asset' = config["asset"]
            /\ \A key \in NumericKeys :
                  /\ key \notin DOMAIN config => Member(key)' = Member(key)
                  /\ (key \in DOMAIN config /\ IsDecimal(config[key]))
                        => Member(key)' = Denoted(config[key], Len(config[key]))]_vars

\* A reconfiguration has delivered some of the keys and not the others.
ReconfigureFrameWitness ==
    /\ ~crashed
    /\ call.op = "reconfigure"
    /\ "samples" \in DOMAIN call.newConfig
    /\ "bands" \notin DOMAIN call.newConfig
    /\ "asset" \notin DOMAIN call.newConfig
    /\ m_bands # 0

(***************************************************************************)
(* C11.  With ingest and reconfigure called from concurrent threads, no    *)
(* two calls are inside their bodies at the same time, and while a thread  *)
(* is inside the body of ingest no step of another thread changes a        *)
(* configuration member or a buffer.                                       *)
(***************************************************************************)
InBody(t) == frame[t].pc \in {"for", "processFFT", "handleConfig"}

InIngestBody(t) == frame[t].pc \in {"for", "processFFT"}

OneInBody == \A t, u \in Threads : (InBody(t) /\ InBody(u)) => t = u

\* A step that leaves the frame of t as it is is a step of another thread.
Undisturbed ==
    \A t \in Threads :
        (InIngestBody(t) /\ frame'[t] = frame[t] /\ ~crashed')
            => UNCHANGED <<Members, m_buffer>>

MutuallyExclusive == []OneInBody /\ [][Undisturbed]_vars

\* One thread is between the buffering and the processing of a reading
\* while the other waits at the lock_guard of reconfigure.
MutuallyExclusiveWitness ==
    \E t, u \in Threads :
        /\ frame[t].pc = "processFFT"
        /\ frame[u].pc = "reconfigure"
        /\ m_configMutex = t

(***************************************************************************)
(* C12.  Every derived record is named as the configured asset followed by *)
(* " FFT"; its fields are named "Band 00", "Band 01", ... with the numbers *)
(* 0, 1, 2, ... in the order of the fields, two digits each; it has no     *)
(* other field, so none for the peak frequency.                            *)
(***************************************************************************)
IsBandName(name, number) ==
    /\ Len(name) = 7
    /\ SubSeq(name, 1, 5) = <<"B", "a", "n", "d", " ">>
    /\ IsDecimal(SubSeq(name, 6, 7))
    /\ name[6] # "-"
    /\ name[6] # "+"
    /\ Denoted(SubSeq(name, 6, 7), 2) = number

TransformsOnlyPowersOfTwo ==
    AfterIngest =>
        \A k \in 1..Len(call.out) :
            IsFFT(call.out[k]) => IsPowerOfTwo(Len(call.out[k].window))

(***************************************************************************)
(* The samples received and the windows transformed, recorded as the calls *)
(* return: per datapoint name, the numeric values that readings of the     *)
(* configured asset brought, and the windows handed to runFFT.             *)
(***************************************************************************)
RECURSIVE WindowsOf(_, _)
WindowsOf(entries, i) ==
    IF i > Len(entries) THEN <<>>
    ELSE <<entries[i].window>> \o WindowsOf(entries, i + 1)

Recorded(readings) ==
    IF crashed'
    THEN UNCHANGED history
    ELSE history' =
             [received |->
                  [c \in ChannelNames |->
                       history.received[c] \o Appended(readings, c, 1)],
              transformed |->
                  [c \in ChannelNames |->
                       history.transformed[c]
                           \o WindowsOf(FFTEntriesOf(call'.out, c), 1)]]

(***************************************************************************)
(* The transform itself.  FFT is not defined in fft_filter.cpp; it is      *)
(* taken to compute the discrete Fourier transform,                        *)
(* X[k] = sum over n of x[n] * w^(k*n), w a primitive N-th root of unity.  *)
(* For N dividing 8 every X[k] is a0 + a1*r + a2*r^2 + a3*r^3 with integer *)
(* a0..a3 and r a primitive 8th root of unity (r^4 = -1), held as          *)
(* <<a0, a1, a2, a3>> indexed from 0.                                      *)
(***************************************************************************)
RootPower(e) ==
    [c \in 0..3 |-> IF e % 8 = c THEN 1 ELSE IF e % 8 = c + 4 THEN -1 ELSE 0]

RECURSIVE FFTSum(_, _, _)
FFTSum(values, k, n) ==
    IF n = 0 THEN [c \in 0..3 |-> 0]
    ELSE LET rest == FFTSum(values, k, n - 1)
             w == RootPower((n - 1) * k * (8 \div Len(values)))
         IN  [c \in 0..3 |-> rest[c] + values[n] * w[c]]

FFT(values, k) == FFTSum(values, k, Len(values))

\* |X[k]|^2 = p + q * sqrt(2)
SquaredMagnitude(values, k) ==
    LET a == FFT(values, k)
    IN  [p |-> a[0] * a[0] + a[1] * a[1] + a[2] * a[2] + a[3] * a[3],
         q |-> a[0] * a[1] + a[1] * a[2] + a[2] * a[3] - a[0] * a[3]]

\* The magnitude of a bin is a whole number.
WholeMagnitude(values, k) ==
    /\ SquaredMagnitude(values, k).q = 0
    /\ \E r \in 0..SquaredMagnitude(values, k).p : r * r = SquaredMagnitude(values, k).p

\* sqrt(re^2 + im^2) of bin k, where it is a whole number.
absValue(values, k) ==
    CHOOSE r \in 0..SquaredMagnitude(values, k).p : r * r = SquaredMagnitude(values, k).p

\* The sum that a band's value divides: the magnitudes of its bins.
RECURSIVE SumOfBins(_, _, _)
SumOfBins(values, bins, j) ==
    IF j > Len(bins) THEN 0
    ELSE absValue(values, bins[j]) + SumOfBins(values, bins, j + 1)

(***************************************************************************)
(* C14.  A filter constructed with asset "vib", 2 bands, samples 8 and     *)
(* both cut-offs 0 that is fed the samples 1, 0, -1, 0, 1, 0, -1, 0 of the *)
(* field x emits, over the whole feed, exactly one record: it is named     *)
(* "vib FFT", it has exactly 2 bands, and the band whose bins include bin  *)
(* 2 has the larger value.                                                 *)
(***************************************************************************)
ScenarioConfig ==
    [k \in Keys |->
        CASE k = "asset"    -> Vib
          [] k = "bands"    -> <<"2">>
          [] k = "samples"  -> <<"8">>
          [] k = "lowPass"  -> <<"0">>
          [] k = "highPass" -> <<"0">>]

ScenarioSamples == <<1, 0, -1, 0, 1, 0, -1, 0>>

SampleValues == {-1, 0, 1}

ScenarioBatches ==
    SeqsUpTo({ Reading(Vib, <<Datapoint(X, T_FLOAT, v)>>) : v \in SampleValues }, 1)

InitScenario == Constructed(ScenarioConfig)

\* Samples are fed one reading a call, up to one window and one sample more.
NextScenario ==
    \E readings \in ScenarioBatches, divz \in Outcomes :
        /\ Len(history.received[X]) <= Len(ScenarioSamples)
        /\ ingestKept(readings, divz)
        /\ Recorded(readings)

SpecScenario == InitScenario /\ [][NextScenario]_vars

\* a / b < c / d, for positive b and d
Below(a, b, c, d) == a * d < c * b

\* The one record of the scenario: what the call that brought the last
\* sample returned, and what was transformed over the whole feed.
ScenarioRecord ==
    /\ history.transformed[X] = <<ScenarioSamples>>
    /\ AfterIngest
    /\ Len(call.out) = 1
    /\ IsFFT(call.out[1])
    /\ call.out[1].window = ScenarioSamples
    /\ call.out[1].reading.asset = <<"v", "i", "b", " ", "F", "F", "T">>
    /\ Len(call.out[1].reading.dps) = 2
    /\ LET bands == call.out[1].reading.dps
           holds(j) == \E b \in 1..Len(bands[j].val.bins) : bands[j].val.bins[b] = 2
       IN  /\ \A j \in 1..Len(bands) :
                 /\ bands[j].val.div >= 1
                 /\ \A b \in 1..Len(bands[j].val.bins) :
                       WholeMagnitude(ScenarioSamples, bands[j].val.bins[b])
           /\ \E j \in 1..Len(bands) :
                 /\ holds(j)
                 /\ \A other \in 1..Len(bands) :
                       other # j =>
                           /\ ~holds(other)
                           /\ Below(SumOfBins(ScenarioSamples, bands[other].val.bins, 1),
                                    bands[other].val.div,
                                    SumOfBins(ScenarioSamples, bands[j].val.bins, 1),
                                    bands[j].val.div)

\* The step brings the last sample of the scenario.
ScenarioFed ==
    /\ history.received[X] # ScenarioSamples
    /\ history'.received[X] = ScenarioSamples

ScenarioSpectrum == [][ScenarioFed => ScenarioRecord']_vars

\* The eighth sample of the scenario has arrived and a record was emitted.
ScenarioSpectrumWitness ==
    /\ history.received[X] = ScenarioSamples
    /\ AfterIngest
    /\ Len(FFTEntries(call.out)) = 1

(***************************************************************************)
(* C15.  In every derived record, the band of index k (from 0) is the sum  *)
(* of the magnitudes of exactly the aveSamples consecutive bins            *)
(* first + k * aveSamples .. first + (k + 1) * aveSamples - 1, divided by  *)
(* aveSamples, where first = floor(m_lowPass * (N/2) / 100),               *)
(* last = N/2 - floor(m_highPass * (N/2) / 100) and                        *)
(* aveSamples = floor((last - first) / m_bands) for a window of N samples; *)
(* no bin below first or at or above last is in any band.                  *)
(***************************************************************************)
BandsAreMeans ==
    AfterIngest =>
        \A k \in 1..Len(call.out) :
            IsFFT(call.out[k]) =>
                LET n == Len(call.out[k].window)
                    bands == call.out[k].reading.dps
                IN  \A j \in 1..Len(bands) :
                        /\ bands[j].val.div = ClaimedAve(n)
                        /\ bands[j].val.bins =
                               [b \in 1..ClaimedAve(n) |->
                                    ClaimedFirst(n) + (j - 1) * ClaimedAve(n) + b - 1]
                        /\ \A b \in 1..Len(bands[j].val.bins) :
                               /\ bands[j].val.bins[b] >= ClaimedFirst(n)
                               /\ bands[j].val.bins[b] < ClaimedLast(n)

\* A record of two bands was derived with bins cut at both ends.
BandsAreMeansWitness ==
    /\ AfterIngest
    /\ m_lowPass > 0
    /\ m_highPass > 0
    /\ \E k \in 1..Len(call.out) :
          /\ IsFFT(call.out[k])
          /\ Len(call.out[k].reading.dps) >= 2
          /\ ClaimedFirst(Len(call.out[k].window)) > 0
          /\ ClaimedLast(Len(call.out[k].window)) < Len(call.out[k].window) \div 2

(***************************************************************************)
(* C16.  A pass of processFFT empties the buffers that hold exactly        *)
(* m_samples samples and leaves every other buffer with exactly what it    *)
(* held, creating and removing no buffer; passing on a reading of another  *)
(* asset changes no buffer and creates none.                               *)
(***************************************************************************)
\* The step is a pass of processFFT by thread t that returned.
Processed(t) ==
    /\ frame[t].pc = "processFFT"
    /\ frame'[t].pc = "for"
    /\ ~crashed'

\* The step passes on a reading of another asset.
PassedOn(t) ==
    /\ frame[t].pc = "for"
    /\ frame'[t].pc = "for"
    /\ frame'[t].i = frame[t].i + 1

ProcessorFrame ==
    [][\A t \in Threads :
          /\ Processed(t) =>
                /\ DOMAIN m_buffer' = DOMAIN m_buffer
                /\ \A c \in DOMAIN m_buffer :
                      m_buffer'[c] = IF Len(m_buffer[c]) = m_samples
                                     THEN <<>> ELSE m_buffer[c]
          /\ PassedOn(t) => m_buffer' = m_buffer]_vars

\* A pass has just emptied one buffer and left another with its samples.
ProcessorFrameWitness ==
    \E t \in Threads :
        /\ frame[t].pc = "for"
        /\ frame[t].i > 1
        /\ Matches(frame[t].readings[frame[t].i - 1])
        /\ Len(frame[t].out) > 0
        /\ IsFFT(frame[t].out[Len(frame[t].out)])
        /\ frame[t].at[Len(frame[t].at)] = frame[t].i - 1
        /\ \E c, d \in DOMAIN m_buffer :
              /\ m_buffer[c] = <<>>
              /\ frame[t].out[Len(frame[t].out)].chan = c
              /\ m_buffer[d] # <<>>

(***************************************************************************)
(* C17.  When addFFTAsset buffers a reading that carries a field whose     *)
(* type is neither integer nor float, that field appends nothing and       *)
(* creates no buffer for its name, the call goes on, and the numeric       *)
(* fields of the reading are appended to the buffers of their names.       *)
(***************************************************************************)
\* The step is addFFTAsset, by thread t.
BufferedReading(t) ==
    /\ frame[t].pc = "for"
    /\ frame'[t].pc = "processFFT"

IsUnsupported(dp) == dp.type # T_FLOAT /\ dp.type # T_INTEGER

UnsupportedSkipped ==
    [][\A t \in Threads :
          BufferedReading(t) =>
              LET dps == frame[t].readings[frame[t].i].dps
              IN  (\E j \in 1..Len(dps) : IsUnsupported(dps[j])) =>
                      /\ ~crashed'
                      /\ \A c \in ChannelNames :
                            /\ BufferOf(m_buffer', c)
                                  = BufferOf(m_buffer, c) \o FieldValues(dps, c, 1)
                            /\ (c \in DOMAIN m_buffer') =
                                  (c \in DOMAIN m_buffer \/ FieldValues(dps, c, 1) # <<>>)
                      /\ DOMAIN m_buffer' \subseteq ChannelNames]_vars

\* A reading with a string field x and a float field y has been buffered:
\* there is a buffer for y and none for x.
UnsupportedSkippedWitness ==
    \E t \in Threads :
        /\ frame[t].pc = "processFFT"
        /\ \E j \in 1..Len(frame[t].readings[frame[t].i].dps) :
              /\ frame[t].readings[frame[t].i].dps[j].type = T_STRING
              /\ frame[t].readings[frame[t].i].dps[j].name = X
        /\ X \notin DOMAIN m_buffer
        /\ Y \in DOMAIN m_buffer
        /\ m_buffer[Y] # <<>>

(***************************************************************************)
(* C18.  After any sequence of ingest and reconfigure calls, and for every *)
(* datapoint name, the windows transformed for it, one after the other in  *)
(* the order of their transformation and followed by what its buffer       *)
(* holds, are exactly the numeric values received for it on readings of    *)
(* the configured asset, in the order of arrival.                          *)
(***************************************************************************)
ReceivedInAll == SumLen(history.received, ChannelNames)

\* The filter in its pipeline, with what it receives and transforms
\* recorded, until MaxReceived samples have been received.
NextHistory ==
    \/ \E readings \in Batches, divz \in Outcomes :
           /\ ingest(readings, divz)
           /\ Recorded(readings)
           /\ ReceivedInAll' <= MaxReceived
    \/ \E newConfig \in PipelineConfigs :
           reconfigure(newConfig) /\ UNCHANGED history

SpecHistory == Init /\ [][NextHistory]_vars

RECURSIVE Concatenated(_, _)
Concatenated(windows, i) ==
    IF i > Len(windows) THEN <<>>
    ELSE windows[i] \o Concatenated(windows, i + 1)

NoSampleLost ==
    ~crashed =>
        \A c \in ChannelNames :
            Concatenated(history.transformed[c], 1) \o BufferOf(m_buffer, c)
                = history.received[c]

\* Two windows of x have been transformed, with different samples in them,
\* and a further sample of x is buffered.
NoSampleLostWitness ==
    /\ ~crashed
    /\ Len(history.transformed[X]) >= 2
    /\ \E i, j \in 1..Len(history.received[X]) :
          history.received[X][i] # history.received[X][j]
    /\ history.transformed[X][1] # <<>>
    /\ history.transformed[X][2] # <<>>
    /\ BufferOf(m_buffer, X) # <<>>

(***************************************************************************)
(* C19.  Once reconfiguration has stopped with m_samples >= 1, a datapoint *)
(* that keeps receiving numeric values on readings of the configured asset *)
(* has a derived record emitted for it again and again: in every behaviour *)
(* in which x keeps being fed, it holds infinitely often that a            *)
(* reconfiguration has just returned, or m_samples < 1, or the process     *)
(* was killed, or a record has just been derived from x.                   *)
(***************************************************************************)
LiveReadings ==
    { Reading(a, <<Datapoint(X, T_FLOAT, v)>>) : a \in Assets, v \in {1, 2} }

LiveBatches == SeqsUpTo(LiveReadings, 1)

\* A reading of the configured asset brings a sample of x.
FeedX ==
    \E reading \in LiveReadings, divz \in Outcomes :
        /\ Matches(reading)
        /\ ingestKept(<<reading>>, divz)
        /\ UNCHANGED history

NextLive ==
    \/ \E readings \in LiveBatches, divz \in Outcomes :
           ingestKept(readings, divz) /\ UNCHANGED history
    \/ \E newConfig \in PipelineConfigs :
           reconfigure(newConfig) /\ UNCHANGED history

\* The upstream of the filter keeps delivering readings of the configured
\* asset.
SpecLive == Init /\ [][NextLive]_vars /\ WF_vars(FeedX)

XEmitted == AfterIngest /\ Len(FFTEntriesOf(call.out, X)) > 0

ChannelKeepsEmitting ==
    []<>(call.op = "reconfigure" \/ m_samples < 1 \/ crashed \/ XEmitted)

(***************************************************************************)
(* C20.  Throughout an ingest call, out follows the order of the batch:    *)
(* every entry was pushed while the loop was at some reading, and these    *)
(* readings never go backwards along out.  A reading of another asset is   *)
(* pushed, itself and once, when the loop is at it; a derived record is    *)
(* pushed when the loop is at the reading of the configured asset whose    *)
(* sample completed its window.  So a derived record comes after every     *)
(* passed-on reading that precedes that reading in the batch and before    *)
(* every one that follows it, and the records derived at one reading are   *)
(* next to each other.                                                     *)
(***************************************************************************)
\* values ends with the non-empty sequence tail.
EndsWith(values, tail) ==
    /\ tail # <<>>
    /\ Len(tail) <= Len(values)
    /\ SubSeq(values, Len(values) - Len(tail) + 1, Len(values)) = tail

OutputPlacement ==
    \A t \in Threads :
        InIngestBody(t) =>
            LET out == frame[t].out
                at == frame[t].at
                readings == frame[t].readings
            IN  /\ Len(at) = Len(out)
                /\ \A k \in 1..Len(out) :
                      /\ at[k] \in 1..Len(readings)
                      /\ at[k] <= frame[t].i
                      /\ k > 1 => at[k - 1] <= at[k]
                      /\ IsInput(out[k]) =>
                            /\ out[k].reading = readings[at[k]]
                            /\ readings[at[k]].asset # m_asset
                            /\ k > 1 => at[k - 1] < at[k]
                      /\ IsFFT(out[k]) =>
                            /\ readings[at[k]].asset = m_asset
                            /\ EndsWith(out[k].window,
                                        FieldValues(readings[at[k]].dps, out[k].chan, 1))
                /\ \A j \in 1..Len(readings) :
                      (j < frame[t].i /\ readings[j].asset # m_asset) =>
                          \E k \in 1..Len(out) : at[k] = j /\ IsInput(out[k])

=============================================================================
